---- MODULE Spec2Model ----
(***************************************************************************)
(* State-machine model of the SilverBullet iCalendar plug (icalendar.ts):  *)
(* the cache gate, one synchronization pass (syncCalendars) split at the   *)
(* awaits where other handlers can run, the Force Sync command and the     *)
(* background watcher.                                                     *)
(*                                                                         *)
(* JavaScript values are tagged records ([t |-> typeof, v |-> value]) so   *)
(* that typeof checks, truthiness (&&, ||) and ?? are computed as the code *)
(* computes them.  Times are epoch milliseconds.                           *)
(*                                                                         *)
(* Failures modelled: a source's fetch or parse throwing, and the index    *)
(* write throwing.  clientStore, config and editor calls do not throw.     *)
(***************************************************************************)
EXTENDS Integers, Sequences, FiniteSets, TLC

\* ------------------------------------------------------------------ bounds
\* Epoch time at which the editor starts (Date.now() is never 0).
StartTime == 1000
\* The clock advances at most this many times.
MaxTicks == 2
\* Calls of syncCalendars in one behaviour (commands and watcher cycles).
MaxPasses == 2
\* Entries of the configured sources list.
MaxSources == 2
\* Events of one upstream calendar.
MaxEvents == 2

\* The clock's k-th advance, in ms: the times observed are 0, 10, 35, 45, 70,
\* ... seconds after the start.
TickStep(k) == IF k % 2 = 1 THEN 10000 ELSE 25000

RECURSIVE TimeLine(_)
TimeLine(k) == IF k = 0 THEN StartTime ELSE TimeLine(k - 1) + TickStep(k)

\* --------------------------------------------------------------- constants
\* clientStore keys are tuples of strings; the global key has one piece.
CACHE_KEY == <<"icalendar:lastSync">>
DEFAULT_CACHE_DURATION_SECONDS == 21600
DEFAULT_WATCH_INTERVAL_SECONDS == 30

\* ------------------------------------------------------- JavaScript values
Undef == [t |-> "undefined"]
Num(n) == [t |-> "number", v |-> n]
Str(s) == [t |-> "string", v |-> s]
Bool(b) == [t |-> "boolean", v |-> b]
\* null, an array with its items, and an object that is neither.
Null == [t |-> "object", v |-> "null"]
Arr(items) == [t |-> "object", v |-> "array", items |-> items]
Obj == [t |-> "object", v |-> "object"]

\* typeof x
TypeOf(x) == x.t

\* Truthiness of a value, as && and || and if (...) read it.
Truthy(x) ==
  CASE x.t = "boolean" -> x.v
    [] x.t = "number" -> x.v # 0
    [] x.t = "string" -> x.v # <<>>
    [] x.t = "object" -> x.v # "null"
    [] OTHER -> FALSE

\* Array.isArray(x)
IsArray(x) == x.t = "object" /\ x.v = "array"

\* x is null or undefined: reading a property of x throws a TypeError.
Nullish(x) == x = Null \/ x = Undef

\* x.f for x not null or undefined: a field of a source entry, undefined on a
\* string, a number or a boolean.
Prop(x, f) == IF "t" \in DOMAIN x THEN Undef ELSE x[f]

\* a ?? b
Coalesce(x, d) == IF x.t = "undefined" THEN d ELSE x

\* A string is the sequence of its pieces; a URL is <<scheme prefix, rest>>.
StartsWith(s, prefix) == Len(s.v) > 0 /\ s.v[1] = prefix

\* ----------------------------------------------------------- configuration
\* Entries a user may write under icalendar.sources.
HttpSource ==
  [url |-> Str(<<"https://", "work">>), name |-> Str(<<"Work">>),
   watch |-> Undef, watchInterval |-> Undef]
WatchedFile ==
  [url |-> Str(<<"file://", "local">>), name |-> Undef,
   watch |-> Bool(TRUE), watchInterval |-> Num(30)]
NoUrlEntry ==
  [url |-> Undef, name |-> Str(<<"Broken">>),
   watch |-> Str(<<"yes">>), watchInterval |-> Undef]

SourcePool == {HttpSource, WatchedFile, NoUrlEntry}

\* Further entries: a watched file with a short interval, one with no
\* watchInterval, a file source that is not watched, and an https source on
\* which watch is set.
FastWatchedFile ==
  [url |-> Str(<<"file://", "fast">>), name |-> Str(<<"Fast">>),
   watch |-> Bool(TRUE), watchInterval |-> Num(10)]
DefaultWatchedFile ==
  [url |-> Str(<<"file://", "plain">>), name |-> Undef,
   watch |-> Bool(TRUE), watchInterval |-> Undef]
UnwatchedFile ==
  [url |-> Str(<<"file://", "notes">>), name |-> Undef,
   watch |-> Bool(FALSE), watchInterval |-> Num(10)]
WatchedHttp ==
  [url |-> Str(<<"https://", "shared">>), name |-> Undef,
   watch |-> Bool(TRUE), watchInterval |-> Num(10)]

RECURSIVE SeqsUpTo(_, _)
SeqsUpTo(S, n) ==
  IF n = 0 THEN {<<>>}
  ELSE LET shorter == SeqsUpTo(S, n - 1)
       IN shorter \cup {Append(s, x) : s \in {q \in shorter : Len(q) = n - 1}, x \in S}

\* Configurations: a sources list and an optional cacheDuration (seconds).
NoRepeat(s) == \A a, b \in 1..Len(s) : s[a] = s[b] => a = b

Configs ==
  [sources : {Arr(s) : s \in {q \in SeqsUpTo(SourcePool, MaxSources) : NoRepeat(q)}},
   cacheDuration : {Undef, Num(20)}]

\* ------------------------------------------------------------ pure helpers
\* sha256Hash: a collision-free digest of its argument.
sha256Hash(str) == <<"sha256", str>>

\* getSourceCacheKey(source)
getSourceCacheKey(source) == <<"icalendar:source", sha256Hash(source.url.v)>>

\* The validated copy getSources pushes for one entry.
ValidatedSource(src) ==
  [url |-> src.url,
   name |-> IF TypeOf(src.name) = "string" THEN src.name ELSE Undef,
   watch |-> IF TypeOf(src.watch) = "boolean" THEN src.watch ELSE Undef,
   watchInterval |->
     IF TypeOf(src.watchInterval) = "number" THEN src.watchInterval ELSE Undef]

RECURSIVE ValidateFrom(_, _)
ValidateFrom(raw, k) ==
  IF k > Len(raw) THEN <<>>
  ELSE IF TypeOf(Prop(raw[k], "url")) # "string" THEN ValidateFrom(raw, k + 1)
  ELSE <<ValidatedSource(raw[k])>> \o ValidateFrom(raw, k + 1)

\* getSources() throws: the loop of lines 138-151 reads src.url of an entry
\* that is null or undefined.
getSourcesThrows(plugConfig) ==
  /\ IsArray(plugConfig.sources)
  /\ \E k \in 1..Len(plugConfig.sources.items) : Nullish(plugConfig.sources.items[k])

\* What getSources() returns when it does not throw.
getSources(plugConfig) ==
  IF ~Truthy(plugConfig.sources) \/ ~IsArray(plugConfig.sources) THEN <<>>
  ELSE IF Len(plugConfig.sources.items) = 0 THEN <<>>
  ELSE ValidateFrom(plugConfig.sources.items, 1)

\* Mutant: the scheme of the url is not looked at.
IsWatchedAnyScheme(source) == Truthy(source.watch)

\* source.url.startsWith("file://") && source.watch
IsWatched(source) == StartsWith(source.url, "file://") /\ Truthy(source.watch)

\* clientStore.get(key): the stored value, or undefined.
StoreGet(store, key) == IF key \in DOMAIN store THEN store[key] ELSE Undef

\* clientStore.set(key, value)
StoreSet(store, key, value) ==
  [k \in DOMAIN store \cup {key} |-> IF k = key THEN value ELSE store[k]]

\* clientStore.del(key)
StoreDel(store, key) == [k \in DOMAIN store \ {key} |-> store[k]]

\* Mutant: the watch interval is taken as minutes.
WatchedSourceDueMinutes(source, sourceLastSync, now) ==
  LET watchIntervalSeconds ==
        Coalesce(source.watchInterval, Num(DEFAULT_WATCH_INTERVAL_SECONDS)).v
      watchIntervalMs == watchIntervalSeconds * 60000
  IN ~(Truthy(sourceLastSync) /\ (now - sourceLastSync.v) < watchIntervalMs)

\* The watched branch of shouldSyncSource (lines 176-186).
WatchedSourceDue(source, sourceLastSync, now) ==
  LET watchIntervalSeconds ==
        Coalesce(source.watchInterval, Num(DEFAULT_WATCH_INTERVAL_SECONDS)).v
      watchIntervalMs == watchIntervalSeconds * 1000
  IN ~(Truthy(sourceLastSync) /\ (now - sourceLastSync.v) < watchIntervalMs)

\* Mutant: a missing global timestamp counts as a fresh cache.
GlobalCacheDueNeedsTimestamp(globalLastSync, globalCacheDuration, now) ==
  Truthy(globalLastSync) /\ (now - globalLastSync.v) >= globalCacheDuration

\* The global branch of shouldSyncSource (lines 188-193).
GlobalCacheDue(globalLastSync, globalCacheDuration, now) ==
  ~(Truthy(globalLastSync) /\ (now - globalLastSync.v) < globalCacheDuration)

\* shouldSyncSource(source, globalLastSync, globalCacheDuration), with the
\* clientStore it reads and the Date.now() it takes.
shouldSyncSource(source, globalLastSync, globalCacheDuration, store, now) ==
  IF IsWatched(source)
  THEN WatchedSourceDue(source, StoreGet(store, getSourceCacheKey(source)), now)
  ELSE GlobalCacheDue(globalLastSync, globalCacheDuration, now)

\* cacheDurationMs of syncCalendars (lines 263-264).
CacheDurationMs(plugConfig) ==
  Coalesce(plugConfig.cacheDuration, Num(DEFAULT_CACHE_DURATION_SECONDS)).v * 1000

\* showNotification of syncCalendars (line 296).
ShowNotification(watchedSourceTriggered, sources) ==
  ~watchedSourceTriggered \/ Len(sources) > 1

\* ------------------------------------------------------ upstream calendars
\* The calendars behind the URLs, as parsed by convertIcsCalendar: for the
\* last piece of a URL, the sequence of its events.
VARIABLE upstream

\* A Date, by its time in whole seconds (the resolution of an iCalendar
\* date-time), kept in milliseconds as Date.getTime() gives it.
DateOf(seconds) == [t |-> "object", v |-> "date", time |-> seconds * 1000]

\* An IcsEvent: its start (undefined, or an object holding a Date), its uid
\* and its summary.
IcsEvent(start, uid, summary) == [start |-> start, uid |-> uid, summary |-> summary]
StartAt(seconds) == [date |-> DateOf(seconds)]

\* The calendars the sources of the README point to: a weekly series of two
\* occurrences sharing one UID, and a calendar of one event without UID.
DefaultUpstream ==
  [name \in {"work", "local"} |->
     IF name = "work"
     THEN <<IcsEvent(StartAt(100), Str(<<"standup">>), Str(<<"Standup">>)),
            IcsEvent(StartAt(200), Str(<<"standup">>), Str(<<"Standup">>))>>
     ELSE <<IcsEvent(StartAt(100), Undef, Str(<<"Lunch">>))>>]

\* calendar.events of the calendar behind a URL (none for an unknown URL: a
\* calendar with no events).
CalendarEvents(url) ==
  IF url.v[2] \in DOMAIN upstream THEN upstream[url.v[2]] ELSE <<>>

\* How many events the calendar behind a URL holds (0: a calendar with no events).
UpstreamEventCount(url) == Len(CalendarEvents(url))

\* `${date}` of a Date: Date.prototype.toString(), which renders the time to
\* the second.
DateToString(date) == <<ToString(date.time \div 1000)>>

\* Mutant: the start date is left out of the key.
uniqueKeyWithoutStart(icsEvent) ==
  IF Truthy(icsEvent.uid) THEN icsEvent.uid.v
  ELSE IF Truthy(icsEvent.summary) THEN icsEvent.summary.v
  ELSE <<>>

\* uniqueKey of an event (line 239):
\* `${icsEvent.start?.date || ''}${icsEvent.uid || icsEvent.summary || ''}`
uniqueKey(icsEvent) ==
  LET startDate == IF Nullish(icsEvent.start) THEN Undef ELSE icsEvent.start.date
      startPart == IF Truthy(startDate) THEN DateToString(startDate) ELSE <<>>
      idPart == IF Truthy(icsEvent.uid) THEN icsEvent.uid.v
                ELSE IF Truthy(icsEvent.summary) THEN icsEvent.summary.v
                ELSE <<>>
  IN startPart \o idPart

\* fetchAndParseCalendar(source) when fetch and parse succeed: one record per
\* event of the calendar, carrying its ref and sourceName.  fetchedBy is the
\* number of the pass that fetched it (history, tells the content of one fetch
\* from another).
fetchAndParseCalendar(source, passId) ==
  [n \in 1..UpstreamEventCount(source.url) |->
     [tag |-> "ical-event", url |-> source.url.v, n |-> n,
      ref |-> sha256Hash(uniqueKey(CalendarEvents(source.url)[n])),
      sourceName |-> source.name, fetchedBy |-> passId]]

\* index.indexObjects("$icalendar", objects): the host's replace-all write of
\* the record set of the namespace.
indexObjects(oldIndex, objects) == objects

\* ------------------------------------------------------------------- state
VARIABLES
  config,       \* the icalendar section of the space configuration
  clock,        \* Date.now()
  clientStore,  \* the host key-value store: key -> stored value
  index,        \* the records indexed under "$icalendar"
  proc,         \* per flow of control: the locals of its syncCalendars call
  passCount,    \* calls of syncCalendars so far
  watcher,      \* the background watcher: its state and pending timer
  clear         \* the locals of the clearCache command

vars ==
  <<clear, upstream, config, clock, clientStore, index, proc, passCount, watcher>>

\* The flows of control that can run syncCalendars: the user's commands and
\* the watcher's cycles.
Procs == {"user", "watcher"}

Note(kind, events, ok, total) ==
  [kind |-> kind, events |-> events, ok |-> ok, total |-> total]

\* The locals of a syncCalendars call before it starts.  due, seen, fetched,
\* failed, notes, indexCalls, indexFailed, replaced, indexed, wroteGlobal and
\* wroteSource record what the call has done so far: the sources found due and
\* the per-source timestamps read by the gate, the sources attempted and
\* failed, the notifications shown, the index writes made, the index content
\* its write replaced and left, the timestamps it wrote, and whether another
\* flow's call (from its forceSync or syncCalendars on) ran during this one.
IdlePass ==
  [pc |-> "idle", trigger |-> "none", id |-> 0, sources |-> <<>>,
   cacheDurationMs |-> 0, lastSync |-> Undef, now |-> 0, i |-> 0,
   needsSync |-> FALSE, watchedSourceTriggered |-> FALSE,
   showNotification |-> FALSE, allEvents |-> <<>>, successCount |-> 0,
   due |-> {}, seen |-> <<>>, fetched |-> {}, failed |-> {}, notes |-> <<>>,
   indexCalls |-> 0, indexFailed |-> FALSE, replaced |-> <<>>,
   indexed |-> <<>>, wroteGlobal |-> FALSE, wroteSource |-> {},
   overlapped |-> FALSE]

\* The watcher before startWatcher ran. timers counts the pending setTimeout
\* timers; cycles, error, config0 and setAt record the last backgroundWatch
\* invocation: how many ran, whether the last one ended in its catch block,
\* the configuration it read and when it set its timer.
IdleWatcher ==
  [state |-> "off", fireAt |-> 0, minInterval |-> 0, timers |-> 0, cycles |-> 0,
   error |-> FALSE, config0 |-> Undef, setAt |-> 0]

\* The locals of clearCache before it is called.  answer and failed record
\* what happened; passes0, quiet0 and global0 record, as the command was
\* called, the number of syncCalendars calls so far, whether no call was
\* running, and whether a global timestamp was stored.
IdleClear ==
  [pc |-> "idle", keys |-> {}, answer |-> "none", failed |-> FALSE,
   passes0 |-> 0, quiet0 |-> FALSE, global0 |-> FALSE]

Init ==
  /\ clear = IdleClear
  /\ upstream = DefaultUpstream
  /\ config \in Configs
  /\ clock = StartTime
  /\ clientStore = <<>>
  /\ index = <<>>
  /\ proc = [p \in Procs |-> IdlePass]
  /\ passCount = 0
  /\ watcher = IdleWatcher

\* No syncCalendars call has just returned.  The code after the call (the
\* command's return, line 418 of backgroundWatch) runs in the same turn of the
\* event loop as the return, before any other handler takes a step.
Settled == \A p \in Procs : proc[p].pc # "done"

\* ------------------------------------------------------- syncCalendars
\* A call of syncCalendars by flow p.
CallSync(p, trigger, notes) ==
  LET others == \E q \in Procs \ {p} : proc[q].pc # "idle"
  IN [q \in Procs |->
        IF q = p
        THEN [IdlePass EXCEPT !.pc = "start", !.trigger = trigger,
                              !.id = passCount + 1, !.notes = notes,
                              !.overlapped = others]
        ELSE IF proc[q].pc # "idle" THEN [proc[q] EXCEPT !.overlapped = TRUE]
        ELSE proc[q]]

\* Mutant: the top-level catch shows nothing.
TopLevelCatchSilent(notes) == notes

\* The notifications after the top-level catch of syncCalendars (lines
\* 335-338) showed "Failed to sync calendars".
TopLevelCatch(notes) == Append(notes, Note("failed", 0, 0, 0))

\* Lines 262-272: read the configuration, the sources, the global timestamp
\* and the time; return at once when no source is configured.  When
\* getSources throws, the top-level catch (lines 335-338) reports the failure.
Begin(p) ==
  /\ Settled
  /\ proc[p].pc = "start"
  /\ LET sources == getSources(config)
     IN proc' = [proc EXCEPT ![p] =
          IF getSourcesThrows(config)
          THEN [@ EXCEPT !.pc = "done",
                         !.notes = TopLevelCatch(@)]
          ELSE IF Len(sources) = 0
          THEN [@ EXCEPT !.pc = "done"]
          ELSE [@ EXCEPT !.pc = "gate", !.sources = sources,
                         !.cacheDurationMs = CacheDurationMs(config),
                         !.lastSync = StoreGet(clientStore, CACHE_KEY),
                         !.now = clock, !.i = 1]]
  /\ UNCHANGED <<clear, upstream, config, clock, clientStore, index, passCount, watcher>>

\* Mutant: the pass goes on whether or not a source is due.
NeedsSyncAlways(needsSync, shouldSync) == TRUE

\* needsSync after one more source was checked (lines 280-281).
NeedsSyncAfter(needsSync, shouldSync) == needsSync \/ shouldSync

\* Mutant: allEvents is not a fresh list, it starts from what is indexed.
InitialAllEventsStale(indexed) == indexed

\* allEvents as the fetch loop starts (line 305).
InitialAllEvents(indexed) == <<>>

\* Mutant: the fetch loop visits only the sources the gate found due.
RECURSIVE DueFrom(_, _, _)
DueFrom(sources, due, k) ==
  IF k > Len(sources) THEN <<>>
  ELSE (IF k \in due THEN <<k>> ELSE <<>>) \o DueFrom(sources, due, k + 1)

FetchListDueOnly(sources, due) == DueFrom(sources, due, 1)

\* The sources the fetch loop visits, in order (line 308).
FetchList(sources, due) == [k \in 1..Len(sources) |-> k]

\* Lines 288-306, run once the gate loop is over: return when nothing is due,
\* else decide on notifications, announce the sync and enter the fetch loop.
AfterGate(ps) ==
  IF ~ps.needsSync
  THEN [ps EXCEPT !.pc = "done"]
  ELSE LET show == ShowNotification(ps.watchedSourceTriggered, ps.sources)
           list == FetchList(ps.sources, ps.due)
       IN [ps EXCEPT !.pc = IF Len(list) = 0 THEN "index" ELSE "fetch",
                     !.i = 1,
                     !.showNotification = show,
                     !.allEvents = InitialAllEvents(index),
                     !.successCount = 0,
                     !.notes = IF show THEN Append(@, Note("start", 0, 0, 0)) ELSE @]

\* One round of the gate loop (lines 278-286): shouldSyncSource on source k.
GateRound(ps, k, store, now) ==
  LET source == ps.sources[k]
      shouldSync ==
        shouldSyncSource(source, ps.lastSync, ps.cacheDurationMs, store, now)
  IN [ps EXCEPT
        !.needsSync = NeedsSyncAfter(@, shouldSync),
        !.watchedSourceTriggered = @ \/ (shouldSync /\ IsWatched(source)),
        !.due = IF shouldSync THEN @ \cup {k} ELSE @,
        !.seen = Append(@, IF IsWatched(source)
                           THEN StoreGet(store, getSourceCacheKey(source))
                           ELSE Undef)]

RECURSIVE GateLoop(_, _, _, _)
GateLoop(ps, k, store, now) ==
  IF k > Len(ps.sources) THEN ps
  ELSE GateLoop(GateRound(ps, k, store, now), k + 1, store, now)

\* Lines 278-306: the gate loop over all sources, reading the store and the
\* time as they are now, then the decision.
Gate(p) ==
  /\ Settled
  /\ proc[p].pc = "gate"
  /\ proc' = [proc EXCEPT ![p] = AfterGate(GateLoop(proc[p], 1, clientStore, clock))]
  /\ UNCHANGED <<clear, upstream, config, clock, clientStore, index, passCount, watcher>>

\* The fetch loop moves on to its next source, or to the index write.
NextFetch(ps) ==
  IF ps.i < Len(FetchList(ps.sources, ps.due))
  THEN [ps EXCEPT !.i = @ + 1]
  ELSE [ps EXCEPT !.pc = "index"]

\* Mutant: the timestamp is written for every source, watched or not.
updateSourceCacheAnySource(store, source, now) ==
  StoreSet(store, getSourceCacheKey(source), Num(now))

\* The store after updateSourceCache(source) (lines 199-205).
updateSourceCache(store, source, now) ==
  IF IsWatched(source)
  THEN StoreSet(store, getSourceCacheKey(source), Num(now))
  ELSE store

\* Lines 312-315: the fetch and the parse of the current source succeed.
FetchOk(p) ==
  /\ Settled
  /\ proc[p].pc = "fetch"
  /\ LET ps == proc[p]
         k == FetchList(ps.sources, ps.due)[ps.i]
         source == ps.sources[k]
         events == fetchAndParseCalendar(source, ps.id)
     IN /\ clientStore' = updateSourceCache(clientStore, source, clock)
        /\ proc' = [proc EXCEPT ![p] =
             NextFetch([ps EXCEPT
               !.allEvents = @ \o events,
               !.successCount = @ + 1,
               !.fetched = @ \cup {k},
               !.wroteSource = IF IsWatched(source) THEN @ \cup {k} ELSE @])]
  /\ UNCHANGED <<clear, upstream, config, clock, index, passCount, watcher>>

\* Mutant: no per-source catch, the failure ends the pass at the top-level catch.
SourceFailedAborts(ps, k) ==
  [ps EXCEPT !.pc = "done", !.fetched = @ \cup {k}, !.failed = @ \cup {k},
             !.notes = Append(@, Note("failed", 0, 0, 0))]

\* The locals after the catch of lines 316-324 handled a failure of source k.
SourceFailed(ps, k) ==
  NextFetch([ps EXCEPT
    !.fetched = @ \cup {k},
    !.failed = @ \cup {k},
    !.notes = IF ps.showNotification
              THEN Append(@, Note("sourceFailed", k, 0, 0)) ELSE @])

\* Lines 312, 316-324: the fetch or the parse of the current source throws.
FetchFail(p) ==
  /\ Settled
  /\ proc[p].pc = "fetch"
  /\ LET ps == proc[p]
         k == FetchList(ps.sources, ps.due)[ps.i]
     IN proc' = [proc EXCEPT ![p] = SourceFailed(ps, k)]
  /\ UNCHANGED <<clear, upstream, config, clock, clientStore, index, passCount, watcher>>

\* Mutant: a failed index write is ignored and the pass goes on.
PcAfterIndexWriteIgnoresError(ok) == "setcache"

\* Where syncCalendars goes after index.indexObjects returned or threw.
PcAfterIndexWrite(ok) == IF ok THEN "setcache" ELSE "done"

\* Line 327: the index write succeeds.
IndexOk(p) ==
  /\ Settled
  /\ proc[p].pc = "index"
  /\ index' = indexObjects(index, proc[p].allEvents)
  /\ proc' = [proc EXCEPT ![p] =
       [@ EXCEPT !.pc = PcAfterIndexWrite(TRUE), !.indexCalls = @ + 1,
                 !.replaced = index,
                 !.indexed = indexObjects(index, proc[p].allEvents)]]
  /\ UNCHANGED <<clear, upstream, config, clock, clientStore, passCount, watcher>>

\* Lines 327, 335-338: the index write throws; the top-level catch reports
\* the failure once.
IndexFail(p) ==
  /\ Settled
  /\ proc[p].pc = "index"
  /\ proc' = [proc EXCEPT ![p] =
       [@ EXCEPT !.pc = PcAfterIndexWrite(FALSE), !.indexCalls = @ + 1,
                 !.indexFailed = TRUE,
                 !.notes = TopLevelCatch(@)]]
  /\ UNCHANGED <<clear, upstream, config, clock, clientStore, index, passCount, watcher>>

\* Lines 328-334: store the time taken at line 272 as the global timestamp and
\* show the summary.
SetCache(p) ==
  /\ Settled
  /\ proc[p].pc = "setcache"
  /\ clientStore' = StoreSet(clientStore, CACHE_KEY, Num(proc[p].now))
  /\ proc' = [proc EXCEPT ![p] =
       [@ EXCEPT !.pc = "done", !.wroteGlobal = TRUE,
                 !.notes = IF proc[p].showNotification
                           THEN Append(@, Note("summary", Len(proc[p].allEvents),
                                               proc[p].successCount,
                                               Len(proc[p].sources)))
                           ELSE @]]
  /\ UNCHANGED <<clear, upstream, config, clock, index, passCount, watcher>>

\* ------------------------------------------------------------- commands
\* The iCalendar: Sync command.
Sync ==
  /\ Settled
  /\ proc["user"].pc = "idle"
  /\ passCount < MaxPasses
  /\ proc' = CallSync("user", "sync", <<>>)
  /\ passCount' = passCount + 1
  /\ UNCHANGED <<clear, upstream, config, clock, clientStore, index, watcher>>

\* forceSync (lines 344-349): delete the global timestamp, notify, then call
\* syncCalendars.
ForceSync ==
  /\ Settled
  /\ proc["user"].pc = "idle"
  /\ passCount < MaxPasses
  /\ clientStore' = StoreDel(clientStore, CACHE_KEY)
  /\ proc' = CallSync("user", "force", <<Note("forcing", 0, 0, 0)>>)
  /\ passCount' = passCount + 1
  /\ UNCHANGED <<clear, upstream, config, clock, index, watcher>>

\* The command returns to the editor.
Return ==
  /\ proc["user"].pc = "done"
  /\ proc' = [proc EXCEPT !["user"] = IdlePass]
  /\ UNCHANGED <<clear, upstream, config, clock, clientStore, index, passCount, watcher>>

\* --------------------------------------------------------------- watcher
\* Mutant: every source counts as watched.
WatchedSourcesAll(sources) == 1..Len(sources)

\* The positions kept by the filter of lines 403 and 432.
WatchedSources(sources) == {k \in 1..Len(sources) : IsWatched(sources[k])}

\* Mutant: the largest of the watched sources' intervals.
MinIntervalLargest(sources) ==
  LET ms(k) ==
        Coalesce(sources[k].watchInterval, Num(DEFAULT_WATCH_INTERVAL_SECONDS)).v * 1000
  IN CHOOSE m \in {ms(k) : k \in WatchedSources(sources)} :
       \A k \in WatchedSources(sources) : m >= ms(k)

\* Math.min over the watched sources' intervals in ms (lines 410-412).
MinInterval(sources) ==
  LET ms(k) ==
        Coalesce(sources[k].watchInterval, Num(DEFAULT_WATCH_INTERVAL_SECONDS)).v * 1000
  IN CHOOSE m \in {ms(k) : k \in WatchedSources(sources)} :
       \A k \in WatchedSources(sources) : m <= ms(k)

\* Lines 405 and 432: is any source a watched file source?
HasWatchedSources(sources) == WatchedSources(sources) # {}

\* backgroundWatch up to its call of syncCalendars (lines 402-415), or up to
\* the timer of its catch block when getSources throws (lines 419-423).
\* timers is the number of timers still pending when it is entered.
BackgroundWatch(timers) ==
  IF getSourcesThrows(config)
  THEN /\ watcher' = [watcher EXCEPT
                        !.state = "timer",
                        !.fireAt = clock + DEFAULT_WATCH_INTERVAL_SECONDS * 1000,
                        !.setAt = clock,
                        !.timers = timers + 1,
                        !.cycles = @ + 1,
                        !.error = TRUE,
                        !.config0 = config]
       /\ UNCHANGED <<proc, passCount>>
  ELSE LET sources == getSources(config)
       IN IF ~HasWatchedSources(sources)
          THEN /\ watcher' = [watcher EXCEPT !.state = "stopped",
                                             !.timers = timers,
                                             !.cycles = @ + 1,
                                             !.error = FALSE,
                                             !.config0 = config]
               /\ UNCHANGED <<proc, passCount>>
          ELSE /\ watcher' = [watcher EXCEPT !.state = "cycle",
                                             !.minInterval = MinInterval(sources),
                                             !.timers = timers,
                                             !.cycles = @ + 1,
                                             !.error = FALSE,
                                             !.config0 = config]
               /\ proc' = CallSync("watcher", "watch", <<>>)
               /\ passCount' = passCount + 1

\* startWatcher (lines 430-438), called once as the editor initialises. When
\* getSources throws at line 431 the call rejects and no cycle ever runs.
StartWatcher ==
  /\ Settled
  /\ watcher.state = "off"
  /\ passCount < MaxPasses
  /\ IF getSourcesThrows(config)
     THEN /\ watcher' = [watcher EXCEPT !.state = "stopped"]
          /\ UNCHANGED <<proc, passCount>>
     ELSE IF HasWatchedSources(getSources(config))
          THEN BackgroundWatch(0)
          ELSE /\ watcher' = [watcher EXCEPT !.state = "stopped"]
               /\ UNCHANGED <<proc, passCount>>
  /\ UNCHANGED <<clear, upstream, config, clock, clientStore, index>>

\* Line 418: the cycle's syncCalendars returned; schedule the next cycle.
Schedule ==
  /\ watcher.state = "cycle"
  /\ proc["watcher"].pc = "done"
  /\ watcher' = [watcher EXCEPT !.state = "timer",
                                !.fireAt = clock + watcher.minInterval,
                                !.setAt = clock,
                                !.timers = @ + 1]
  /\ proc' = [proc EXCEPT !["watcher"] = IdlePass]
  /\ UNCHANGED <<clear, upstream, config, clock, clientStore, index, passCount>>

\* The timer set by setTimeout fires, no earlier than asked, and runs
\* backgroundWatch.
TimerFire ==
  /\ Settled
  /\ watcher.state = "timer"
  /\ clock >= watcher.fireAt
  /\ passCount < MaxPasses
  /\ BackgroundWatch(watcher.timers - 1)
  /\ UNCHANGED <<clear, upstream, config, clock, clientStore, index>>

\* ------------------------------------------------------------------- time
Tick ==
  /\ Settled
  /\ \E k \in 0..(MaxTicks - 1) :
       /\ clock = TimeLine(k)
       /\ clock' = TimeLine(k + 1)
  /\ UNCHANGED <<clear, upstream, config, clientStore, index, proc, passCount, watcher>>

Next ==
  \/ Sync
  \/ ForceSync
  \/ Return
  \/ StartWatcher
  \/ Schedule
  \/ TimerFire
  \/ Tick
  \/ \E p \in Procs : Begin(p)
  \/ \E p \in Procs : Gate(p)
  \/ \E p \in Procs : FetchOk(p)
  \/ \E p \in Procs : FetchFail(p)
  \/ \E p \in Procs : IndexOk(p)
  \/ \E p \in Procs : IndexFail(p)
  \/ \E p \in Procs : SetCache(p)

Spec == Init /\ [][Next]_vars

\* ------------------------------------------------------------ clearCache
\* The datastore key of an indexed record under the page "$icalendar": its
\* tag and ref (["ridx", page, tag, ref], mirrored by ["idx", tag, ref, page]).
RecordKey(record) == <<record.tag, record.ref>>

\* datastore.query({prefix: ["ridx", "$icalendar"]}): the keys of the records
\* indexed under the page (lines 369-376).
queryKeys(records) == {RecordKey(records[k]) : k \in 1..Len(records)}

\* datastore.batchDel(allKeys): the records left (line 379).
batchDel(records, keys) ==
  LET Kept(record) == RecordKey(record) \notin keys
  IN SelectSeq(records, Kept)

\* Mutant: the command deletes every key of the clientStore.
StoreAfterClearEverything(store) == <<>>

\* The clientStore after line 383.
StoreAfterClear(store) == StoreDel(store, CACHE_KEY)

\* The iCalendar: Clear All Events command is run: the confirmation dialog
\* opens (line 355).
ClearAsk ==
  /\ Settled
  /\ clear.pc = "idle"
  /\ clear' = [IdleClear EXCEPT !.pc = "ask", !.passes0 = passCount,
                                 !.quiet0 = \A p \in Procs : proc[p].pc = "idle",
                                 !.global0 = CACHE_KEY \in DOMAIN clientStore]
  /\ UNCHANGED <<upstream, config, clock, clientStore, index, proc, passCount, watcher>>

\* The user declines: the command returns (lines 355-359).
ClearDecline ==
  /\ Settled
  /\ clear.pc = "ask"
  /\ clear' = [clear EXCEPT !.pc = "done", !.answer = "no"]
  /\ UNCHANGED <<upstream, config, clock, clientStore, index, proc, passCount, watcher>>

\* The user confirms and the query returns the keys (lines 361-376); with no
\* key the batch delete is skipped (line 378).
ClearConfirm ==
  /\ Settled
  /\ clear.pc = "ask"
  /\ LET keys == queryKeys(index)
     IN clear' = [clear EXCEPT !.pc = IF keys = {} THEN "delcache" ELSE "del",
                               !.answer = "yes", !.keys = keys]
  /\ UNCHANGED <<upstream, config, clock, clientStore, index, proc, passCount, watcher>>

\* The query or the batch delete throws: the catch of lines 387-393 reports it.
ClearStoreError ==
  /\ Settled
  /\ clear.pc \in {"ask", "del"}
  /\ clear' = [clear EXCEPT !.pc = "done", !.answer = "yes", !.failed = TRUE]
  /\ UNCHANGED <<upstream, config, clock, clientStore, index, proc, passCount, watcher>>

\* Line 379: the queried keys are deleted.
ClearBatchDel ==
  /\ Settled
  /\ clear.pc = "del"
  /\ index' = batchDel(index, clear.keys)
  /\ clear' = [clear EXCEPT !.pc = "delcache"]
  /\ UNCHANGED <<upstream, config, clock, clientStore, proc, passCount, watcher>>

\* Lines 383-386: the global timestamp is deleted and the command reports.
ClearDelCache ==
  /\ Settled
  /\ clear.pc = "delcache"
  /\ clientStore' = StoreAfterClear(clientStore)
  /\ clear' = [clear EXCEPT !.pc = "done"]
  /\ UNCHANGED <<upstream, config, clock, index, proc, passCount, watcher>>

\* The command returns to the editor.
ClearReturn ==
  /\ Settled
  /\ clear.pc = "done"
  /\ clear' = IdleClear
  /\ UNCHANGED <<upstream, config, clock, clientStore, index, proc, passCount, watcher>>

\* The configurations with one source, watched or not, and the default cache
\* duration.
ClearConfigs ==
  {c \in Configs :
     /\ c.cacheDuration = Undef
     /\ c.sources \in {Arr(<<WatchedFile>>), Arr(<<HttpSource>>)}}

InitClear ==
  /\ clear = IdleClear
  /\ upstream = DefaultUpstream
  /\ config \in ClearConfigs
  /\ clock = StartTime
  /\ clientStore = <<>>
  /\ index = <<>>
  /\ proc = [p \in Procs |-> IdlePass]
  /\ passCount = 0
  /\ watcher = IdleWatcher

\* The commands and the watcher, with the Clear All Events command.
NextClear ==
  \/ Next
  \/ ClearAsk
  \/ ClearDecline
  \/ ClearConfirm
  \/ ClearStoreError
  \/ ClearBatchDel
  \/ ClearDelCache
  \/ ClearReturn

SpecClear == InitClear /\ [][NextClear]_vars

\* ------------------------------------------------- the cache gate alone
\* Timestamps an earlier pass (of this or an earlier session) may have stored.
StoredTimes == {StartTime, StartTime + 5000, StartTime + 10000, StartTime + 15000}

GatePool ==
  {HttpSource, WatchedFile, FastWatchedFile, DefaultWatchedFile, UnwatchedFile,
   WatchedHttp}

\* A clientStore holding any of the global timestamp and the timestamp of the
\* file source, none later than the present time.
GateStores(source, now) ==
  LET times == {Num(t) : t \in {u \in StoredTimes : u <= now}}
      global == {<<>>} \cup {StoreSet(<<>>, CACHE_KEY, t) : t \in times}
  IN IF StartsWith(source.url, "file://")
     THEN global \cup {StoreSet(g, getSourceCacheKey(source), t) : g \in global, t \in times}
     ELSE global

\* The editor at some time of its run, with one source configured and a
\* clientStore as earlier passes may have left it.
InitGate ==
  /\ clear = IdleClear
  /\ upstream = DefaultUpstream
  /\ \E source \in GatePool, cacheDuration \in {Undef, Num(20)}, k \in 0..MaxTicks :
       /\ config = [sources |-> Arr(<<source>>), cacheDuration |-> cacheDuration]
       /\ clock = TimeLine(k)
       /\ clientStore \in GateStores(source, clock)
  /\ index = <<>>
  /\ proc = [p \in Procs |-> IdlePass]
  /\ passCount = 0
  /\ watcher = IdleWatcher

\* A Sync command up to the end of its gate.
NextGate ==
  \/ Sync
  \/ Tick
  \/ \E p \in Procs : Begin(p)
  \/ \E p \in Procs : Gate(p)

SpecGate == InitGate /\ [][NextGate]_vars

\* ------------------------------------------------ source validation alone
NumberUrlEntry ==
  [url |-> Num(8080), name |-> Undef, watch |-> Undef, watchInterval |-> Undef]

\* What a user may write as one entry of the list: source records with and
\* without a string url, a bare string, and an empty (null) entry.
RawEntryPool ==
  {HttpSource, WatchedFile, NoUrlEntry, NumberUrlEntry,
   Str(<<"https://", "bare">>), Null}

\* What a user may write as icalendar.sources: nothing, null, a string, a
\* number, a table that is no list, or a list of entries.
RawSources ==
  {Undef, Null, Str(<<"https://", "bare">>), Num(0), Obj}
  \cup {Arr(s) : s \in SeqsUpTo(RawEntryPool, MaxSources)}

InitSources ==
  /\ clear = IdleClear
  /\ upstream = DefaultUpstream
  /\ config \in [sources : RawSources, cacheDuration : {Undef}]
  /\ clock = StartTime
  /\ clientStore = <<>>
  /\ index = <<>>
  /\ proc = [p \in Procs |-> IdlePass]
  /\ passCount = 0
  /\ watcher = IdleWatcher

\* Sync commands up to the return of getSources.
NextSources ==
  \/ Sync
  \/ Return
  \/ \E p \in Procs : Begin(p)

SpecSources == InitSources /\ [][NextSources]_vars

\* ---------------------------------------------------- event identity alone
\* Events a parsed calendar may hold: with and without a start, a UID (also
\* an empty one) and a summary.
IcsEventPool ==
  {IcsEvent(start, uid, summary) :
     start \in {Undef, StartAt(100), StartAt(200)},
     uid \in {Undef, Str(<<>>), Str(<<"a">>)},
     summary \in {Undef, Str(<<"a">>), Str(<<"x">>)}}

\* One https source configured, behind it any calendar of up to MaxEvents
\* events, which stays as it is.
InitRef ==
  /\ clear = IdleClear
  /\ upstream \in [{"work"} -> SeqsUpTo(IcsEventPool, MaxEvents)]
  /\ config = [sources |-> Arr(<<HttpSource>>), cacheDuration |-> Undef]
  /\ clock = StartTime
  /\ clientStore = <<>>
  /\ index = <<>>
  /\ proc = [p \in Procs |-> IdlePass]
  /\ passCount = 0
  /\ watcher = IdleWatcher

\* Sync and Force Sync commands whose fetches and index writes succeed.
NextRef ==
  \/ Sync
  \/ ForceSync
  \/ Return
  \/ \E p \in Procs : Begin(p)
  \/ \E p \in Procs : Gate(p)
  \/ \E p \in Procs : FetchOk(p)
  \/ \E p \in Procs : IndexOk(p)
  \/ \E p \in Procs : SetCache(p)

SpecRef == InitRef /\ [][NextRef]_vars

\* ------------------------------------------- watcher and configuration edits
\* The value of config.get("icalendar") is read anew by every getSources call
\* (line 126), so an edit of the configuration while the
\* watcher runs is seen by the next call.  The lists cover: two watched files
\* with different intervals, a watched file without an interval, no watched
\* source, and a list with an empty entry, for which getSources throws.
WatchConfigs ==
  [sources : {Arr(<<FastWatchedFile, WatchedFile>>), Arr(<<DefaultWatchedFile>>),
              Arr(<<HttpSource>>), Arr(<<Null, FastWatchedFile>>)},
   cacheDuration : {Undef}]

\* The user edits the plug's configuration.
ChangeConfig ==
  /\ \E c \in WatchConfigs : c # config /\ config' = c
  /\ UNCHANGED <<clear, upstream, clock, clientStore, index, proc, passCount,
                 watcher>>

InitW ==
  /\ clear = IdleClear
  /\ upstream = DefaultUpstream
  /\ config \in WatchConfigs
  /\ clock = StartTime
  /\ clientStore = <<>>
  /\ index = <<>>
  /\ proc = [p \in Procs |-> IdlePass]
  /\ passCount = 0
  /\ watcher = IdleWatcher

NextW ==
  \/ ChangeConfig
  \/ StartWatcher
  \/ Schedule
  \/ TimerFire
  \/ Tick
  \/ Sync
  \/ Return
  \/ \E p \in Procs : Begin(p)
  \/ \E p \in Procs : Gate(p)
  \/ \E p \in Procs : FetchOk(p)
  \/ \E p \in Procs : FetchFail(p)
  \/ \E p \in Procs : IndexOk(p)
  \/ \E p \in Procs : SetCache(p)

SpecW == InitW /\ [][NextW]_vars

\* ------------------------------------------------ date normalization alone
\* A string that may be a date is the sequence of its characters.
Digits == {"0", "1", "2", "3", "4", "5", "6", "7", "8", "9"}

DigitValue(c) == CHOOSE n \in 0..9 : ToString(n) = c

AllDigits(s, from, to) == \A i \in from..to : s[i] \in Digits

\* The number written by the digits s[from], ..., s[to].
RECURSIVE NumberAt(_, _, _)
NumberAt(s, from, to) ==
  IF from > to THEN 0 ELSE NumberAt(s, from, to - 1) * 10 + DigitValue(s[to])

\* /^\d{4}-\d{2}-\d{2}T\d{2}:\d{2}:\d{2}/.test(s) (line 97): a test of the
\* first 19 characters, whatever follows them.
MatchesIsoDateTime(s) ==
  /\ Len(s) >= 19
  /\ AllDigits(s, 1, 4) /\ s[5] = "-"
  /\ AllDigits(s, 6, 7) /\ s[8] = "-"
  /\ AllDigits(s, 9, 10) /\ s[11] = "T"
  /\ AllDigits(s, 12, 13) /\ s[14] = ":"
  /\ AllDigits(s, 15, 16) /\ s[17] = ":"
  /\ AllDigits(s, 18, 19)

\* A Date whose time is NaN ("Invalid Date").
InvalidDate == [t |-> "object", v |-> "date", nan |-> TRUE]

\* obj instanceof Date, and whether its time is a number.
IsDate(x) == "t" \in DOMAIN x /\ x.t = "object" /\ x.v = "date"
IsValidDate(date) == "time" \in DOMAIN date

DaysInMonth(year, month) ==
  IF month = 2
  THEN IF year % 4 = 0 /\ (year % 100 # 0 \/ year % 400 = 0) THEN 29 ELSE 28
  ELSE IF month \in {4, 6, 9, 11} THEN 30 ELSE 31

\* new Date(s) for a string s that passed the test of line 97 (line 98): the
\* date-time format of Date.parse, read in the local time zone or, with Z, in
\* UTC; a field out of its range or any other tail gives an Invalid Date.  The
\* local time zone is UTC, and the dates lie in January 1970, so that a time
\* in milliseconds stays a small number.
DateFromString(s) ==
  LET year == NumberAt(s, 1, 4)
      month == NumberAt(s, 6, 7)
      day == NumberAt(s, 9, 10)
      hours == NumberAt(s, 12, 13)
      minutes == NumberAt(s, 15, 16)
      seconds == NumberAt(s, 18, 19)
      wellFormed == Len(s) = 19 \/ (Len(s) = 20 /\ s[20] = "Z")
      inRange == /\ month \in 1..12
                 /\ day \in 1..DaysInMonth(year, month)
                 /\ hours <= 23 /\ minutes <= 59 /\ seconds <= 59
  IN IF wellFormed /\ inRange /\ year = 1970 /\ month = 1
     THEN DateOf((day - 1) * 86400 + hours * 3600 + minutes * 60 + seconds)
     ELSE InvalidDate

Pad2(n) == <<ToString(n \div 10), ToString(n % 10)>>
Pad3(n) == <<ToString(n \div 100)>> \o Pad2(n % 100)

\* localDateString(d) of the host library: the local year, month, day, hours,
\* minutes, seconds and milliseconds of d, zero-padded, as
\* YYYY-MM-DDTHH:MM:SS.mmm; every getter of an Invalid Date gives NaN.
localDateString(date) ==
  IF IsValidDate(date)
  THEN LET total == date.time \div 1000
           day == total \div 86400 + 1
           hours == (total % 86400) \div 3600
           minutes == (total % 3600) \div 60
           seconds == total % 60
       IN Str(<<"1", "9", "7", "0", "-", "0", "1", "-">> \o Pad2(day) \o <<"T">>
              \o Pad2(hours) \o <<":">> \o Pad2(minutes) \o <<":">>
              \o Pad2(seconds) \o <<".">> \o Pad3(date.time % 1000))
  ELSE Str(<<"NaN", "-", "NaN", "-", "NaN", "T", "NaN", ":", "NaN", ":", "NaN",
             ".", "NaN">>)

\* isIcsDateObjects(obj) (lines 66-68) for an obj that is not null: a plain
\* object is a record of its own keys; a Date or an array has neither key.
isIcsDateObjects(obj) ==
  "t" \notin DOMAIN obj /\ "date" \in DOMAIN obj /\ "type" \in DOMAIN obj

\* convertDatesToStrings(obj) (lines 85-116), branch by branch in the order of
\* the code.
RECURSIVE convertDatesToStrings(_)
convertDatesToStrings(obj) ==
  IF "t" \in DOMAIN obj /\ Nullish(obj) THEN obj
  ELSE IF IsDate(obj) THEN localDateString(obj)
  ELSE IF isIcsDateObjects(obj) /\ IsDate(obj.date) THEN localDateString(obj.date)
  ELSE IF "t" \in DOMAIN obj /\ obj.t = "string" /\ MatchesIsoDateTime(obj.v)
  THEN localDateString(DateFromString(obj.v))
  ELSE IF "t" \in DOMAIN obj /\ IsArray(obj)
  THEN Arr([n \in DOMAIN obj.items |-> convertDatesToStrings(obj.items[n])])
  ELSE IF "t" \notin DOMAIN obj
  THEN [key \in DOMAIN obj |-> convertDatesToStrings(obj[key])]
  ELSE obj

\* Strings of an event that look like dates, or do not.
IsoLocal ==
  <<"1", "9", "7", "0", "-", "0", "1", "-", "0", "2", "T",
    "1", "0", ":", "3", "0", ":", "0", "0">>
IsoUtc == IsoLocal \o <<"Z">>
IsoBadHour ==
  <<"1", "9", "7", "0", "-", "0", "1", "-", "0", "2", "T",
    "2", "5", ":", "0", "0", ":", "0", "0">>
DateOnly == <<"1", "9", "7", "0", "-", "0", "1", "-", "0", "2">>

\* The date objects of the parser: a Date with its type, with or without the
\* local rendering next to it.
DateType == Str(<<"DATE-TIME">>)
DateObject(date) == [date |-> date, type |-> DateType]
DateObjectWithLocal(date, localDate) ==
  [date |-> date, type |-> DateType,
   local |-> [date |-> localDate, timezone |-> Str(<<"Europe/Berlin">>)]]

StartValues ==
  {Undef, DateOf(90000), StartAt(100), DateObject(DateOf(100)),
   DateObject(InvalidDate), DateObject(Str(IsoLocal)),
   DateObjectWithLocal(DateOf(100), DateOf(3700))}

SummaryValues ==
  {Undef, Null, Str(<<>>), Str(<<"Lunch">>), Str(DateOnly), Str(IsoLocal),
   Str(IsoUtc), Str(IsoBadHour)}

ExtraValues ==
  {Num(7), Bool(FALSE), Arr(<<>>), Arr(<<DateOf(100), Str(<<"Lunch">>)>>),
   Arr(<<Arr(<<DateObject(DateOf(100))>>), Null>>),
   [nested |-> [deeper |-> Arr(<<Str(IsoLocal), Num(0)>>)]]}

\* The events handed to convertDatesToStrings.
DateEvents == [start : StartValues, summary : SummaryValues, extra : ExtraValues]

InitDates ==
  /\ clear = IdleClear
  /\ upstream \in {[name \in {"work", "local"} |->
                      IF name = "work" THEN <<icsEvent>> ELSE <<>>] :
                   icsEvent \in DateEvents}
  /\ config = [sources |-> Arr(<<HttpSource>>), cacheDuration |-> Undef]
  /\ clock = StartTime
  /\ clientStore = <<>>
  /\ index = <<>>
  /\ proc = [p \in Procs |-> IdlePass]
  /\ passCount = 0
  /\ watcher = IdleWatcher

\* Line 242: the event of the calendar is converted; the result is what gets
\* indexed.
ConvertDates ==
  /\ index = <<>>
  /\ index' = <<convertDatesToStrings(upstream["work"][1])>>
  /\ UNCHANGED <<clear, upstream, config, clock, clientStore, proc, passCount,
                 watcher>>

NextDates == ConvertDates

SpecDates == InitDates /\ [][NextDates]_vars

\* ------------------------------------------------------------- properties
\* The events of the sources in okSet as one pass fetches them, in order.
RECURSIVE AggregateFrom(_, _, _, _)
AggregateFrom(sources, id, k, okSet) ==
  IF k > Len(sources) THEN <<>>
  ELSE (IF k \in okSet THEN fetchAndParseCalendar(sources[k], id) ELSE <<>>)
       \o AggregateFrom(sources, id, k + 1, okSet)

Aggregate(ps, okSet) == AggregateFrom(ps.sources, ps.id, 1, okSet)

AllSources(ps) == 1..Len(ps.sources)

LastNote(ps) == ps.notes[Len(ps.notes)]

UrlsOf(events) == {events[k].url : k \in 1..Len(events)}

\* C1 (isolation): in a pass over N > 1 sources in which exactly one source
\* failed to fetch or parse, the fetch loop still went through every source,
\* the index write was made, the index it left holds exactly the events of the
\* other N-1 sources as fetched in this pass, and the summary reports N-1 of N.
C1_Isolation ==
  \A p \in Procs :
    LET ps == proc[p]
        N == Len(ps.sources)
    IN (N > 1 /\ Cardinality(ps.failed) = 1 /\ ps.pc \in {"index", "setcache", "done"})
       => /\ ps.fetched = AllSources(ps)
          /\ ps.successCount = N - 1
          /\ ps.pc # "index" => ps.indexCalls = 1
          /\ (ps.pc # "index" /\ ~ps.indexFailed)
             => /\ ps.indexed = Aggregate(ps, AllSources(ps) \ ps.failed)
                /\ \A k \in ps.failed : ps.sources[k].url.v \notin UrlsOf(ps.indexed)
          /\ (ps.pc = "done" /\ ~ps.indexFailed)
             => LastNote(ps) = Note("summary", Len(ps.indexed), N - 1, N)

\* A pass in which one of two sources failed wrote the other's events over an
\* index that held events of the failed source.
C1_Witness ==
  \E p \in Procs :
    LET ps == proc[p]
    IN /\ ps.pc = "done" /\ ~ps.indexFailed
       /\ Len(ps.sources) = 2 /\ Cardinality(ps.failed) = 1
       /\ ps.indexed # <<>>
       /\ \E k \in ps.failed : ps.sources[k].url.v \in UrlsOf(ps.replaced)

\* The gate loop of the call is over.
PastGate(ps) == ps.pc \in {"fetch", "index", "setcache", "done"} /\ ps.sources # <<>>

\* C2 (cache-gated no-op): a pass whose gate found no source due returns at
\* once: it fetches nothing, makes no index write, writes neither the global
\* nor any per-source timestamp, and shows no notification of its own.
C2_CacheGatedNoOp ==
  \A p \in Procs :
    LET ps == proc[p]
    IN (PastGate(ps) /\ ps.due = {})
       => /\ ps.pc = "done"
          /\ ps.fetched = {}
          /\ ps.indexCalls = 0
          /\ ~ps.wroteGlobal
          /\ ps.wroteSource = {}
          /\ ps.allEvents = <<>>
          /\ \A k \in 1..Len(ps.notes) : ps.notes[k].kind = "forcing"

\* A second Sync, issued while the global timestamp of a completed pass is
\* fresh, was a no-op and the index still holds what the first pass wrote.
C2_Witness ==
  LET ps == proc["user"]
  IN /\ ps.pc = "done" /\ ps.trigger = "sync" /\ ps.id = 2
     /\ ps.sources # <<>> /\ ps.due = {}
     /\ Truthy(ps.lastSync) /\ ps.now > ps.lastSync.v
     /\ index # <<>>
     /\ StoreGet(clientStore, CACHE_KEY) = ps.lastSync

\* The call read an empty cache: no global timestamp at line 271 and no
\* timestamp for any watched source in the gate loop.
ReadFreshCache(ps) ==
  /\ PastGate(ps)
  /\ ps.lastSync = Undef
  /\ \A k \in 1..Len(ps.seen) : ps.seen[k] = Undef

LoopOver(ps) == ps.pc \in {"index", "setcache", "done"}

\* C3 (fresh cache): a pass over a non-empty list of valid sources that reads
\* an empty cache finds every source due and attempts a fetch of every one.
C3_FreshCacheFetchesAll ==
  \A p \in Procs :
    LET ps == proc[p]
    IN ReadFreshCache(ps)
       => /\ ps.due = AllSources(ps)
          /\ ps.pc # "done" \/ ps.needsSync
          /\ LoopOver(ps) => ps.fetched = AllSources(ps)

\* The first pass after start, over a watched and a non-watched source, read
\* an empty cache and attempted both.
C3_Witness ==
  \E p \in Procs :
    LET ps == proc[p]
    IN /\ ReadFreshCache(ps) /\ ps.pc = "done" /\ ps.id = 1
       /\ ps.trigger # "force"
       /\ Len(ps.sources) = 2 /\ ps.fetched = {1, 2}
       /\ \E k \in 1..2 : IsWatched(ps.sources[k])
       /\ \E k \in 1..2 : ~IsWatched(ps.sources[k])

NonWatched(ps) == {k \in AllSources(ps) : ~IsWatched(ps.sources[k])}

\* C4 (Force Sync fetches every non-watched source), as claimed: the pass run
\* by forceSync has, when it returns, attempted every non-watched source.
C4_ForceSyncFetchesNonWatched ==
  LET ps == proc["user"]
  IN (ps.trigger = "force" /\ ps.pc = "done")
     => NonWatched(ps) \subseteq ps.fetched

\* C5 (Force Sync bypasses the cache), as claimed: with at least one valid
\* source configured, the pass run by forceSync fetches the sources and writes
\* the index.  Stated for the commands during which no other pass ran.
C5_ForceSyncAlwaysSyncs ==
  LET ps == proc["user"]
  IN (ps.trigger = "force" /\ ps.pc = "done" /\ ps.sources # <<>>
      /\ ~ps.overlapped)
     => /\ ps.fetched = AllSources(ps)
        /\ ps.indexCalls = 1

\* C6 (full resync): once the gate found at least one source due, the fetch
\* loop visits the sources in configuration order and, when it is over, has
\* attempted every configured source, due or not.
C6_FullResync ==
  \A p \in Procs :
    LET ps == proc[p]
    IN (PastGate(ps) /\ ps.due # {})
       => /\ ps.pc # "done" \/ ps.indexCalls = 1
          /\ ps.pc = "fetch" => ps.fetched = 1..(ps.i - 1)
          /\ LoopOver(ps) => ps.fetched = AllSources(ps)

\* A pass that only a watched source triggered also attempted a non-watched
\* source that was not due.
C6_Witness ==
  \E p \in Procs :
    LET ps == proc[p]
    IN /\ ps.pc = "done" /\ ps.due # {}
       /\ \A k \in ps.due : IsWatched(ps.sources[k])
       /\ \E k \in ps.fetched \ ps.due : ~IsWatched(ps.sources[k])

\* The scenario of C7: one non-watched HTTP source and one watched file source
\* with watchInterval 30, the default global cache of 6 hours; a first pass at
\* the start time wrote the global timestamp and the watched source's, and
\* this call started 35 seconds later and read both.
C7_Scenario(ps) ==
  /\ PastGate(ps)
  /\ Len(ps.sources) = 2
  /\ \E h, w \in 1..2 :
       /\ ps.sources[h] = ValidatedSource(HttpSource)
       /\ ps.sources[w] = ValidatedSource(WatchedFile)
       /\ ps.seen[w] = Num(StartTime)
  /\ ps.cacheDurationMs = DEFAULT_CACHE_DURATION_SECONDS * 1000
  /\ ps.lastSync = Num(StartTime)
  /\ ps.now = StartTime + 35000

Watched(ps) == AllSources(ps) \ NonWatched(ps)

\* C7 as claimed: in the scenario, the pass run 35 seconds later fetches only
\* the watched source.
C7_FetchesOnlyWatched ==
  \A p \in Procs :
    LET ps == proc[p]
    IN (C7_Scenario(ps) /\ ps.pc = "done") => ps.fetched = Watched(ps)

\* C7 as amended: in the scenario, only the watched source is due (the global
\* cache is still valid for the HTTP source), yet the pass attempts both
\* sources, and the index it writes holds the events, as fetched in this pass,
\* of the sources whose fetch succeeded: the HTTP source's together with the
\* watched source's when both succeed.
C7_WatchTriggeredPassRefetchesBoth ==
  \A p \in Procs :
    LET ps == proc[p]
    IN C7_Scenario(ps)
       => /\ ps.due = Watched(ps)
          /\ ps.watchedSourceTriggered
          /\ LoopOver(ps) => ps.fetched = AllSources(ps)
          /\ (ps.pc \in {"setcache", "done"} /\ ~ps.indexFailed)
             => /\ ps.indexed = Aggregate(ps, AllSources(ps) \ ps.failed)
                /\ ps.failed = {}
                   => UrlsOf(ps.indexed) = {ps.sources[k].url.v : k \in AllSources(ps)}

\* The pass of the scenario returned having fetched both sources and indexed
\* the events of both.
C7_Witness ==
  \E p \in Procs :
    LET ps == proc[p]
    IN /\ C7_Scenario(ps) /\ ps.pc = "done" /\ ps.trigger = "watch"
       /\ ps.fetched = {1, 2} /\ ps.failed = {} /\ ~ps.indexFailed
       /\ Len(ps.indexed) = 3
       /\ index = ps.indexed

\* What one pass, numbered id, can hand to the index write: the events of a
\* subset of the configured sources as that pass fetched them.
PassResults(id) ==
  LET sources == getSources(config)
  IN {AggregateFrom(sources, id, 1, okSet) : okSet \in SUBSET (1..Len(sources))}

WatchedFetched(ps) == {k \in ps.fetched \ ps.failed : IsWatched(ps.sources[k])}

\* C9 as claimed: a pass whose index write threw changed neither the global
\* timestamp nor any watched source's timestamp.
C9_NoTimestampOnFailure ==
  \A p \in Procs :
    LET ps == proc[p]
    IN ps.indexFailed => (~ps.wroteGlobal /\ ps.wroteSource = {})

\* C9 as amended: a pass whose index write threw ends without writing the
\* global timestamp; the timestamp of each watched source was already written
\* right after that source's successful fetch, for exactly those sources.
C9_GlobalTimestampOnlyOnSuccess ==
  \A p \in Procs :
    LET ps == proc[p]
    IN /\ ps.wroteSource = WatchedFetched(ps)
       /\ ps.wroteGlobal => (ps.pc = "done" /\ ps.indexCalls = 1 /\ ~ps.indexFailed)
       /\ ps.indexFailed
          => /\ ps.pc = "done"
             /\ ~ps.wroteGlobal

\* A pass whose index write threw had written a watched source's timestamp
\* and left the global timestamp absent.
C9_Witness ==
  \E p \in Procs :
    LET ps == proc[p]
    IN /\ ps.pc = "done" /\ ps.indexFailed /\ ~ps.wroteGlobal
       /\ ps.wroteSource # {}
       /\ StoreGet(clientStore, CACHE_KEY) = Undef
       /\ \E k \in ps.wroteSource :
            StoreGet(clientStore, getSourceCacheKey(ps.sources[k])) # Undef

\* C10 (background syncs are silent), as claimed: a pass in which only watched
\* sources were due shows no start, per-source failure or summary
\* notification, whatever the number of sources.
C10_BackgroundSyncSilent ==
  \A p \in Procs :
    LET ps == proc[p]
    IN (PastGate(ps) /\ ps.due # {} /\ ps.due \subseteq Watched(ps))
       => \A k \in 1..Len(ps.notes) :
            ps.notes[k].kind \notin {"start", "sourceFailed", "summary"}

\* The call is between its first cache read (line 271) and its final index or
\* timestamp write (lines 327-328).
InFlight(ps) == ps.pc \in {"gate", "fetch", "index", "setcache"}

\* C12 (one pass at a time), as claimed: no two calls of syncCalendars are at
\* the same time between their first cache read and their final write.
C12_AtMostOnePassInFlight ==
  \A p, q \in Procs : (InFlight(proc[p]) /\ InFlight(proc[q])) => p = q

\* C17 (global timestamp once per pass, when a source was synced), as claimed:
\* a pass writes the global timestamp at most once (the write is its last step
\* before the summary), and a pass in which every fetch failed does not write
\* it.
C17_GlobalTimestampNeedsASuccess ==
  \A p \in Procs :
    LET ps == proc[p]
    IN /\ ps.wroteGlobal => ps.pc = "done"
       /\ (LoopOver(ps) /\ ps.fetched # {} /\ ps.successCount = 0)
          => ~ps.wroteGlobal

\* The timestamp stored for source k of the call, or undefined.
SourceTimestamp(ps, k) == StoreGet(clientStore, getSourceCacheKey(ps.sources[k]))

\* The watched source k of the call is due at the present time.
DueNow(ps, k) == WatchedSourceDue(ps.sources[k], SourceTimestamp(ps, k), clock)

\* The keys under which watched sources of the configuration keep their
\* timestamps.
WatchedKeys ==
  LET sources == getSources(config)
  IN {getSourceCacheKey(sources[k]) : k \in WatchedSources(sources)}

\* C18 as claimed: when a pass during which no other pass ran returns, every
\* watched source whose fetch failed in it has the timestamp the pass read and
\* is due, so that the next pass retries it.
C18_FailedSourceStillDue ==
  \A p \in Procs :
    LET ps == proc[p]
    IN (ps.pc = "done" /\ ~ps.overlapped)
       => \A k \in ps.failed \cap Watched(ps) :
            /\ SourceTimestamp(ps, k) = ps.seen[k]
            /\ DueNow(ps, k)

\* C18 as amended: a pass writes a watched source's timestamp exactly for the
\* sources whose fetch and parse succeeded in it; after a failed fetch, in a
\* pass during which no other pass ran, the source's timestamp is the one the
\* pass read, and the source is still due if the gate of that pass found it
\* due; only the global key and the keys of watched sources are ever written.
C18_TimestampFollowsFetch ==
  /\ \A p \in Procs :
       LET ps == proc[p]
       IN /\ ps.wroteSource = WatchedFetched(ps)
          /\ (ps.pc = "done" /\ ~ps.overlapped)
             => \A k \in ps.failed \cap Watched(ps) :
                  /\ SourceTimestamp(ps, k) = ps.seen[k]
                  /\ k \in ps.due => DueNow(ps, k)
  /\ DOMAIN clientStore \subseteq {CACHE_KEY} \cup WatchedKeys

\* A pass returned in which a watched source that had a timestamp and was due
\* failed, while the fetch of a non-watched source succeeded: the timestamp is
\* still the old one and the source is still due.
C18_Witness ==
  \E p \in Procs :
    LET ps == proc[p]
    IN /\ ps.pc = "done" /\ ~ps.overlapped
       /\ \E k \in ps.failed \cap Watched(ps) \cap ps.due :
            /\ ps.seen[k] # Undef
            /\ SourceTimestamp(ps, k) = ps.seen[k]
            /\ DueNow(ps, k)
       /\ \E k \in (ps.fetched \ ps.failed) : ~IsWatched(ps.sources[k])

\* The decision the gate is to take on a source, in the words of C16: by the
\* source's own timestamp and interval when it is a file URL with watch
\* enabled, by the global timestamp and cache duration otherwise.
GateDecision(source, globalLastSync, plugConfig, store, now) ==
  IF source.url.v[1] = "file://" /\ source.watch = Bool(TRUE)
  THEN LET stamp == StoreGet(store, getSourceCacheKey(source))
           seconds == IF source.watchInterval = Undef THEN 30
                      ELSE source.watchInterval.v
       IN stamp = Undef \/ now - stamp.v >= seconds * 1000
  ELSE LET seconds == IF plugConfig.cacheDuration = Undef THEN 21600
                      ELSE plugConfig.cacheDuration.v
       IN globalLastSync = Undef \/ now - globalLastSync.v >= seconds * 1000

\* C16 (cache gate decision): the gate loop of a pass finds due exactly the
\* sources for which the decision above, on the global timestamp the pass read
\* and the store and time at the gate, is to sync.
C16_GateDecision ==
  [][\A p \in Procs :
       (proc[p].pc = "gate" /\ proc'[p].pc # "gate")
       => proc'[p].due =
            {k \in 1..Len(proc[p].sources) :
               GateDecision(proc[p].sources[k], proc[p].lastSync, config,
                            clientStore, clock)}]_vars

\* An https source with watch set and no timestamp of its own was found not
\* due on a fresh global timestamp, and the pass returned.
C16_Witness ==
  LET ps == proc["user"]
  IN /\ ps.pc = "done" /\ ps.sources = <<ValidatedSource(WatchedHttp)>>
     /\ ps.lastSync # Undef /\ ps.due = {}
     /\ getSourceCacheKey(WatchedHttp) \notin DOMAIN clientStore

\* The entry is a record with a string url.
HasStringUrl(entry) == "t" \notin DOMAIN entry /\ entry.url.t = "string"

\* The entries of a configuration that have a string url, in configuration
\* order; none when sources is missing, empty or no list.
EntriesWithUrl(plugConfig) ==
  IF plugConfig.sources.t = "object" /\ plugConfig.sources.v = "array"
  THEN SelectSeq(plugConfig.sources.items, HasStringUrl)
  ELSE <<>>

\* C15 (source validation), as claimed: whatever the configuration, the
\* getSources call of a pass does not fail, and it returns, in configuration
\* order, exactly the entries that have a string url.
C15_GetSourcesValidates ==
  \A p \in Procs :
    LET ps == proc[p]
        entries == EntriesWithUrl(config)
    IN ps.pc \in {"gate", "done"}
       => /\ \A k \in 1..Len(ps.notes) : ps.notes[k].kind # "failed"
          /\ Len(ps.sources) = Len(entries)
          /\ \A k \in 1..Len(entries) : ps.sources[k].url = entries[k].url

\* The records a pass holds or has written, and those indexed.
RecordsOf(events) == {events[k] : k \in 1..Len(events)}

AllRecords ==
  RecordsOf(index)
  \cup UNION {RecordsOf(proc[p].allEvents) \cup RecordsOf(proc[p].indexed)
              \cup RecordsOf(proc[p].replaced) : p \in Procs}

\* The parsed event a record was made from.
ParsedEvent(record) == upstream[record.url[2]][record.n]

\* What C14 lets the ref depend on: the raw start date (or none), and the UID
\* if present (a non-empty string), else the summary if present, else "".
StartRaw(icsEvent) == IF icsEvent.start = Undef THEN Undef ELSE icsEvent.start.date

IdentityPart(icsEvent) ==
  IF icsEvent.uid # Undef /\ icsEvent.uid.v # <<>> THEN icsEvent.uid.v
  ELSE IF icsEvent.summary # Undef /\ icsEvent.summary.v # <<>> THEN icsEvent.summary.v
  ELSE <<>>

\* C14 (event identity): two records, of the same or of different passes, made
\* from events with the same start and the same identity part have the same
\* ref; so the record of one event of the unchanged calendar has the same ref
\* in every pass; and two events sharing a UID but starting at different times
\* have distinct refs.
C14_EventIdentity ==
  \A r1, r2 \in AllRecords :
    LET e1 == ParsedEvent(r1)
        e2 == ParsedEvent(r2)
    IN /\ (StartRaw(e1) = StartRaw(e2) /\ IdentityPart(e1) = IdentityPart(e2))
          => r1.ref = r2.ref
       /\ (r1.url = r2.url /\ r1.n = r2.n) => r1.ref = r2.ref
       /\ (e1.uid # Undef /\ e1.uid.v # <<>> /\ e1.uid = e2.uid
           /\ StartRaw(e1) # Undef /\ StartRaw(e2) # Undef
           /\ StartRaw(e1) # StartRaw(e2))
          => r1.ref # r2.ref

\* A second pass re-indexed a calendar of two occurrences sharing one UID: the
\* two records have distinct refs, each the same as in the first pass.
C14_Witness ==
  LET ps == proc["user"]
  IN /\ ps.pc = "done" /\ ps.id = 2 /\ index = ps.indexed
     /\ Len(index) = 2 /\ Len(ps.replaced) = 2
     /\ ParsedEvent(index[1]).uid = Str(<<"a">>)
     /\ ParsedEvent(index[2]).uid = Str(<<"a">>)
     /\ StartRaw(ParsedEvent(index[1])) # StartRaw(ParsedEvent(index[2]))
     /\ index[1].ref # index[2].ref
     /\ \A k \in 1..2 : /\ ps.replaced[k].ref = index[k].ref
                        /\ ps.replaced[k].fetchedBy = 1
                        /\ index[k].fetchedBy = 2

\* No call of syncCalendars ran while the clearCache command did: none was
\* running as the command was called, none is running and none was made since.
NoPassDuringClear ==
  /\ clear.quiet0
  /\ \A p \in Procs : proc[p].pc = "idle"
  /\ passCount = clear.passes0

\* The timestamps of the watched sources: the clientStore less the global key.
SourceTimestamps(store) == [key \in DOMAIN store \ {CACHE_KEY} |-> store[key]]

ConfiguredWatched(plugConfig) ==
  LET entries == EntriesWithUrl(plugConfig)
  IN {k \in 1..Len(entries) :
        entries[k].url.v[1] = "file://" /\ entries[k].watch = Bool(TRUE)}

\* A step in which a backgroundWatch invocation begins.
CycleBegins == watcher'.cycles # watcher.cycles

\* C19 (watcher lifecycle): the watcher leaves its initial state for a cycle
\* only when the configuration has a watched file source; the end of a cycle
\* leaves exactly one timer pending; a cycle that raised an error leaves
\* exactly one timer pending, set to the default interval from now; a cycle
\* that read a configuration without a watched file source leaves no timer and
\* stops the watcher; a stopped watcher stays stopped without a timer; and at
\* any time one timer is pending when the watcher waits and none otherwise.
C19_WatcherLifecycle ==
  /\ [][(watcher.state = "off" /\ watcher'.state \in {"cycle", "timer"})
          => ConfiguredWatched(config) # {}]_vars
  /\ [][(watcher.state = "cycle" /\ watcher'.state # "cycle")
          => (watcher'.state = "timer" /\ watcher'.timers = 1)]_vars
  /\ [][(CycleBegins /\ watcher'.error)
          => /\ watcher'.state = "timer"
             /\ watcher'.timers = 1
             /\ watcher'.fireAt = clock + DEFAULT_WATCH_INTERVAL_SECONDS * 1000]_vars
  /\ [][(CycleBegins /\ ~watcher'.error /\ ConfiguredWatched(config) = {})
          => (watcher'.state = "stopped" /\ watcher'.timers = 0)]_vars
  /\ [][(CycleBegins /\ ~watcher'.error /\ ConfiguredWatched(config) # {})
          => watcher'.state = "cycle"]_vars
  /\ [][watcher.state = "stopped" => watcher'.state = "stopped"]_vars
  /\ [](watcher.timers = IF watcher.state = "timer" THEN 1 ELSE 0)

\* A watcher that ran a cycle, waited, and stopped at its second cycle because
\* the configuration no longer had a watched file source.
C19_Witness ==
  /\ watcher.state = "stopped"
  /\ watcher.cycles = 2
  /\ ConfiguredWatched(watcher.config0) = {}

\* The watchInterval of a configured entry in ms, 30 s when it has none.
WatchIntervalMs(entry) ==
  (IF entry.watchInterval.t = "number" THEN entry.watchInterval.v ELSE 30) * 1000

\* The least watchInterval among the watched file sources of a configuration.
LeastWatchInterval(plugConfig) ==
  LET entries == EntriesWithUrl(plugConfig)
      ms == {WatchIntervalMs(entries[k]) : k \in ConfiguredWatched(plugConfig)}
  IN CHOOSE m \in ms : \A n \in ms : m <= n

\* C20 (watcher rescheduling): a cycle that begins without an error goes on to
\* its sync pass exactly when the configuration of that moment has a watched
\* file source, whatever earlier cycles read; and the step that sets the timer
\* of a cycle is taken when the cycle's pass has returned and sets it to the
\* least watchInterval, counted from now, of the sources that were watched in
\* the configuration read as the cycle began, whatever the configuration is by
\* then.
C20_WatcherRescheduling ==
  /\ [][(CycleBegins /\ ~watcher'.error)
          => /\ (watcher'.state = "cycle") <=> (ConfiguredWatched(config) # {})
             /\ (watcher'.state = "cycle") =>
                  /\ watcher'.minInterval = LeastWatchInterval(config)
                  /\ proc'["watcher"].pc = "start"]_vars
  /\ [][(watcher.state = "cycle" /\ watcher'.state = "timer")
          => /\ proc["watcher"].pc = "done"
             /\ watcher'.fireAt = clock + LeastWatchInterval(watcher.config0)]_vars

\* A timer set 10 s ahead by a cycle that began with two watched files of
\* intervals 10 s and 30 s, while the configuration has been edited since and
\* has no watched source any more.
C20_Witness ==
  /\ watcher.state = "timer"
  /\ ~watcher.error
  /\ Cardinality(ConfiguredWatched(watcher.config0)) = 2
  /\ watcher.fireAt = watcher.setAt + 10000
  /\ ConfiguredWatched(config) = {}
  /\ ~getSourcesThrows(config)

\* The watched source k of a pass had no timestamp, or one at least its
\* watchInterval old, as the pass looked at it.
IntervalElapsed(ps, k) ==
  \/ ps.seen[k] = Undef
  \/ ps.now - ps.seen[k].v >= WatchIntervalMs(ps.sources[k])

\* C11 (watched sources are re-fetched every watchInterval), as claimed: every
\* cycle that begins while the configuration has a watched file source runs a
\* sync pass; a pass that finds the watchInterval of a watched source elapsed
\* fetches that source; and the timer a cycle leaves is set no further ahead
\* than the watchInterval of any watched file source of the configuration the
\* cycle began with.
C11_WatchedRefetchedEveryInterval ==
  /\ [][(CycleBegins /\ ConfiguredWatched(config) # {})
          => (watcher'.state = "cycle" /\ proc'["watcher"].pc = "start")]_vars
  /\ [](\A p \in Procs :
          LET ps == proc[p]
          IN (ps.pc = "done" /\ Len(ps.seen) = Len(ps.sources))
             => \A k \in Watched(ps) :
                  IntervalElapsed(ps, k) => k \in ps.fetched \cup ps.failed)
  /\ [](watcher.state = "timer"
          => LET entries == EntriesWithUrl(watcher.config0)
             IN \A k \in ConfiguredWatched(watcher.config0) :
                  watcher.fireAt - watcher.setAt <= WatchIntervalMs(entries[k]))

\* C23 (the global timestamp never moves backwards), as claimed: every step
\* that replaces a stored global timestamp by another stores a value greater
\* than or equal to the one it replaces.
C23_GlobalTimestampMonotonic ==
  [][(CACHE_KEY \in DOMAIN clientStore /\ CACHE_KEY \in DOMAIN clientStore')
       => clientStore'[CACHE_KEY].v >= clientStore[CACHE_KEY].v]_vars

\* How many notifications of a kind a call of syncCalendars has shown.
NotesOfKind(ps, kind) ==
  Cardinality({n \in DOMAIN ps.notes : ps.notes[n].kind = kind})

\* C21 (an orchestration-level failure is caught and surfaced once): a call of
\* syncCalendars whose index write threw has returned to its caller, has shown
\* the failure notification exactly once, as its last notification, and has
\* shown no summary; and a call without such a failure has shown no failure
\* notification.
C21_FailureSurfacedOnce ==
  \A p \in Procs :
    LET ps == proc[p]
    IN IF ps.indexFailed
       THEN /\ ps.pc = "done"
            /\ NotesOfKind(ps, "failed") = 1
            /\ NotesOfKind(ps, "summary") = 0
            /\ ps.notes[Len(ps.notes)].kind = "failed"
       ELSE NotesOfKind(ps, "failed") = 0

\* A call that announced the sync, had a source fail and then its index write
\* throw.
C21_Witness ==
  \E p \in Procs :
    /\ proc[p].indexFailed
    /\ proc[p].showNotification
    /\ proc[p].failed # {}
    /\ proc[p].fetched \ proc[p].failed # {}

\* out is the canonical local-date string of a Date: a string in the fixed
\* width date-time form that reads back as that Date, to the second.
CanonicalFor(out, date) ==
  /\ IsValidDate(date)
  /\ "t" \in DOMAIN out /\ out.t = "string"
  /\ MatchesIsoDateTime(out.v)
  /\ DateFromString(SubSeq(out.v, 1, 19)) = DateOf(date.time \div 1000)

\* out is the value in with its dates normalized, as the claim describes it.
RECURSIVE Normalized(_, _)
Normalized(in, out) ==
  IF "t" \in DOMAIN in
  THEN IF IsDate(in) THEN CanonicalFor(out, in)
       ELSE IF in.t = "string" /\ MatchesIsoDateTime(in.v)
       THEN CanonicalFor(out, DateFromString(in.v))
       ELSE IF IsArray(in)
       THEN /\ "t" \in DOMAIN out /\ IsArray(out)
            /\ Len(out.items) = Len(in.items)
            /\ \A n \in 1..Len(in.items) : Normalized(in.items[n], out.items[n])
       ELSE out = in
  ELSE IF {"date", "type"} \subseteq DOMAIN in /\ IsDate(in.date)
       THEN CanonicalFor(out, in.date)
       ELSE /\ "t" \notin DOMAIN out
            /\ DOMAIN out = DOMAIN in
            /\ \A key \in DOMAIN in : Normalized(in[key], out[key])

\* C22 (date normalization), as claimed: the converted event has every Date,
\* every date object holding a Date and every string matching the date-time
\* pattern replaced by the canonical local-date string, at any depth, and
\* every other value, key and array length as it was.
C22_DatesNormalized ==
  index # <<>> => Normalized(upstream["work"][1], index[1])

==========================================================================
